---- MODULE Spec2Model ----
(***************************************************************************)
(* CalibrateExperts and DotProduct_Classifier of models.py.                *)
(*                                                                         *)
(* Tensors are functions over 0..n-1 (a row), batches are functions over   *)
(* 0..B-1 of rows.  Real numbers are exact rationals <<n, d>> with d > 0.  *)
(* All scores, temperatures and biases are drawn from small naturals, and  *)
(* exp is taken on those integer exponents to the base 2 (Exp): it keeps   *)
(* exp(0) = 1, positivity, monotonicity and exp(a + b) = exp(a) * exp(b),  *)
(* which is all that softmax and the renormalisation use.  log is the      *)
(* injective constructor Log, so exponentiating a returned entry is        *)
(* reading back its argument.                                              *)
(***************************************************************************)
EXTENDS Integers, Sequences, FiniteSets, TLC

VARIABLES
    calib,      \* the CalibrateExperts instance (its fields, by their names)
    setting,    \* the update the external optimizer applied last
    pc,         \* "idle" | "returned": position of the caller of forward
    x,          \* the batch handed to the forward call that has returned
    result,     \* what that call produced: an output batch or an error
    clf,        \* the DotProduct_Classifier instance
    cpc,        \* "idle" | "returned": position of the classifier's caller
    cx,         \* the feature batch handed to the classifier
    cresult     \* what the classifier returned

vars == <<calib, setting, pc, x, result, clf, cpc, cx, cresult>>

\* Largest batch size (x.shape[0]) a forward call is given.
MaxBatch == 2
\* Largest num_classes and feat_dim a DotProduct_Classifier is built with.
MaxClasses == 3
MaxFeat == 2

----------------------------------------------------------------------------
(* Arithmetic on tensors' entries *)

Min(a, b) == IF a < b THEN a ELSE b
Max(a, b) == IF a > b THEN a ELSE b

\* v.shape[-1]
Size(v) == Cardinality(DOMAIN v)

RECURSIVE GCD(_, _)
GCD(a, b) == IF b = 0 THEN a ELSE GCD(b, a % b)

\* The rational in lowest terms.
ReduceQ(q) ==
    IF q[1] = 0 THEN <<0, 1>>
    ELSE LET g == GCD(q[1], q[2]) IN <<q[1] \div g, q[2] \div g>>

\* p + q, over the least common denominator.
AddQ(p, q) ==
    IF p[2] = q[2] THEN <<p[1] + q[1], p[2]>>
    ELSE IF p[2] % q[2] = 0 THEN <<p[1] + q[1] * (p[2] \div q[2]), p[2]>>
    ELSE IF q[2] % p[2] = 0 THEN <<p[1] * (q[2] \div p[2]) + q[1], q[2]>>
    ELSE LET g == GCD(p[2], q[2])
             l == (p[2] \div g) * q[2]
         IN <<p[1] * (l \div p[2]) + q[1] * (l \div q[2]), l>>

\* p * r, in lowest terms when p and r are.
MulQ(p, r) ==
    IF p[1] = 0 \/ r[1] = 0 THEN <<0, 1>>
    ELSE LET g1 == GCD(p[1], r[2])
             g2 == GCD(r[1], p[2])
         IN ReduceQ(<<(p[1] \div g1) * (r[1] \div g2),
                      (p[2] \div g2) * (r[2] \div g1)>>)

\* p / r for r > 0; over r's numerator when p's denominator divides r's.
DivQ(p, r) ==
    IF r[2] % p[2] = 0 THEN <<p[1] * (r[2] \div p[2]), r[1]>>
    ELSE MulQ(ReduceQ(p), ReduceQ(<<r[2], r[1]>>))

\* torch.sum over the integer entries f[lo..hi].
RECURSIVE SumInt(_, _, _)
SumInt(f, lo, hi) ==
    IF lo > hi THEN 0
    ELSE IF lo = hi THEN f[lo]
    ELSE LET mid == (lo + hi) \div 2
         IN SumInt(f, lo, mid) + SumInt(f, mid + 1, hi)

\* torch.sum over the rational entries f[lo..hi].
RECURSIVE SumQ(_, _, _)
SumQ(f, lo, hi) ==
    IF lo > hi THEN <<0, 1>>
    ELSE IF lo = hi THEN f[lo]
    ELSE LET mid == (lo + hi) \div 2
         IN AddQ(SumQ(f, lo, mid), SumQ(f, mid + 1, hi))

\* exp on the integer exponents of the model.
Exp(z) == 2 ^ z

\* torch.log, kept symbolic: Log(q).log is the rational whose logarithm the
\* entry is, so a zero numerator is -inf and <<0, 0>> (0 / 0) is nan.
Log(q) == [log |-> q]

\* torch.ones(1, n) and torch.zeros(., n), one row.
ones(n) == [i \in 0..(n - 1) |-> 1]
zeros(n) == [i \in 0..(n - 1) |-> <<0, 1>>]

\* row[a:b]: Python clamps both ends of a slice to the row's length.
Slice(row, a, b) ==
    LET L == Size(row)
        lo == Min(a, L)
        hi == Min(b, L)
        n == Max(hi - lo, 0)
    IN [i \in 0..(n - 1) |-> row[lo + i]]

\* Broadcasting of the last dimension: sizes agree or one of them is 1.
Broadcastable(a, b) == a = b \/ a = 1 \/ b = 1
BroadcastSize(a, b) == IF a = 1 THEN b ELSE a
\* Entry i of v, a row of n columns, seen through broadcasting.
At(v, n, i) == IF n = 1 THEN v[0] ELSE v[i]

\* F.softmax(z, dim=1), one row: entry i is exp(z[i]) / sum_k exp(z[k]).
softmax(z) ==
    LET n == Size(z)
        e == [i \in 0..(n - 1) |-> Exp(z[i])]
        S == SumInt(e, 0, n - 1)
    IN [i \in 0..(n - 1) |-> <<e[i], S>>]

\* p[:, :-1]
DropLast(p) == [i \in 0..(Size(p) - 2) |-> p[i]]

----------------------------------------------------------------------------
(* CalibrateExperts.__init__ *)

\* The mediumshot range of 'imagenet' starting one index late.
Ranges_gap(dataset) ==
    IF dataset = "imagenet"
    THEN [manyshot |-> <<0, 392>>, mediumshot |-> <<393, 866>>,
          fewshot |-> <<866, 1003>>]
    ELSE [manyshot |-> <<0, 133>>, mediumshot |-> <<133, 296>>,
          fewshot |-> <<296, 368>>]

\* The ranges of manyshot, mediumshot and fewshot logits.
Ranges(dataset) ==
    IF dataset = "imagenet"
    THEN [manyshot |-> <<0, 392>>, mediumshot |-> <<392, 866>>,
          fewshot |-> <<866, 1003>>]
    ELSE [manyshot |-> <<0, 133>>, mediumshot |-> <<133, 296>>,
          fewshot |-> <<296, 368>>]

\* The fields set after the ranges: one temperature and one bias per index
\* of each range, all ones, and the three class masks as they were given.
WithRanges(dataset, r, manyshotClassMask, mediumshotClassMask, fewshotClassMask) ==
    [dataset |-> dataset,
     manyshotRange |-> r.manyshot,
     mediumshotRange |-> r.mediumshot,
     fewshotRange |-> r.fewshot,
     manyshotTemp |-> ones(r.manyshot[2] - r.manyshot[1]),
     mediumshotTemp |-> ones(r.mediumshot[2] - r.mediumshot[1]),
     fewshotTemp |-> ones(r.fewshot[2] - r.fewshot[1]),
     manyshotBias |-> ones(r.manyshot[2] - r.manyshot[1]),
     mediumshotBias |-> ones(r.mediumshot[2] - r.mediumshot[1]),
     fewshotBias |-> ones(r.fewshot[2] - r.fewshot[1]),
     manyshotClassMask |-> manyshotClassMask,
     mediumshotClassMask |-> mediumshotClassMask,
     fewshotClassMask |-> fewshotClassMask]

\* CalibrateExperts(dataset, manyshotClassMask, mediumshotClassMask,
\* fewshotClassMask): no argument is inspected beyond dataset == 'imagenet'.
CalibrateExperts_init(dataset, manyshotClassMask, mediumshotClassMask, fewshotClassMask) ==
    WithRanges(dataset, Ranges(dataset),
               manyshotClassMask, mediumshotClassMask, fewshotClassMask)

----------------------------------------------------------------------------
(* CalibrateExperts.forward *)

Bands == {"manyshot", "mediumshot", "fewshot"}

RangeOf(self, band) ==
    IF band = "manyshot" THEN self.manyshotRange
    ELSE IF band = "mediumshot" THEN self.mediumshotRange
    ELSE self.fewshotRange

TempOf(self, band) ==
    IF band = "manyshot" THEN self.manyshotTemp
    ELSE IF band = "mediumshot" THEN self.mediumshotTemp
    ELSE self.fewshotTemp

BiasOf(self, band) ==
    IF band = "manyshot" THEN self.manyshotBias
    ELSE IF band = "mediumshot" THEN self.mediumshotBias
    ELSE self.fewshotBias

MaskOf(self, band) ==
    IF band = "manyshot" THEN self.manyshotClassMask
    ELSE IF band = "mediumshot" THEN self.mediumshotClassMask
    ELSE self.fewshotClassMask

\* slicing logits: x[:, range[0]:range[1]] for each band, one row.
SliceLogits(self, row) ==
    [b \in Bands |-> Slice(row, RangeOf(self, b)[1], RangeOf(self, b)[2])]

\* (temp * logits) + bias is defined when the shapes broadcast.
ScaleShapesOK(temp, bias, logits) ==
    /\ Broadcastable(Size(temp), Size(logits))
    /\ Broadcastable(BroadcastSize(Size(temp), Size(logits)), Size(bias))

\* (temp * logits) + bias, per index.
BandScaled(temp, bias, logits) ==
    LET nt == Size(temp)
        nl == Size(logits)
        nb == Size(bias)
        n1 == BroadcastSize(nt, nl)
        prod == [i \in 0..(n1 - 1) |-> At(temp, nt, i) * At(logits, nl, i)]
        n2 == BroadcastSize(n1, nb)
    IN [i \in 0..(n2 - 1) |-> At(prod, n1, i) + At(bias, nb, i)]

\* A softmax over all three bands at once, split back into the bands.
BandProbsAll_joint(self, logits) ==
    LET e(b) == LET z == BandScaled(TempOf(self, b), BiasOf(self, b), logits[b])
                IN [i \in DOMAIN z |-> Exp(z[i])]
        e1 == e("manyshot")
        e2 == e("mediumshot")
        e3 == e("fewshot")
        S == SumInt(e1, 0, Size(e1) - 1) + SumInt(e2, 0, Size(e2) - 1)
             + SumInt(e3, 0, Size(e3) - 1)
    IN [b \in Bands |->
          LET eb == IF b = "manyshot" THEN e1
                    ELSE IF b = "mediumshot" THEN e2 ELSE e3
          IN DropLast([i \in DOMAIN eb |-> <<eb[i], S>>])]

\* A softmax taken after the reject column has been dropped.
BandProbsAll_dropFirst(self, logits) ==
    [b \in Bands |->
        softmax(DropLast(BandScaled(TempOf(self, b), BiasOf(self, b), logits[b])))]

\* per index temperature scaling, bias, and softmax; the last column of
\* each band (its reject option) is dropped after the softmax.
BandProbsAll(self, logits) ==
    [b \in Bands |->
        DropLast(softmax(BandScaled(TempOf(self, b), BiasOf(self, b), logits[b])))]

\* The number of columns of a tensor that keeps the reject columns.
OutCols_keepReject(L) == L

\* x.shape[1] - 3: removing reject option indices.
OutCols(L) == L - 3

\* The function {mask[k] -> probs[k] : lo <= k <= hi}; where an index
\* repeats, the later k is the one kept.
RECURSIVE ScatterFn(_, _, _, _, _, _)
ScatterFn(mask, probs, P, C, lo, hi) ==
    IF lo = hi
    THEN (IF mask[lo] < 0 THEN mask[lo] + C ELSE mask[lo]) :> At(probs, P, lo)
    ELSE LET mid == (lo + hi) \div 2
         IN ScatterFn(mask, probs, P, C, mid + 1, hi)
            @@ ScatterFn(mask, probs, P, C, lo, mid)

\* Column k of the band lands on the index after mask[k].
IndexAssign_shifted(r, mask, probs) ==
    LET C == Size(r.y)
        n == Size(mask)
        P == Size(probs)
    IN IF r.status # "ok" THEN r
       ELSE IF \E k \in DOMAIN mask : mask[k] < -C \/ mask[k] >= C
            THEN [status |-> "error", kind |-> "index"]
       ELSE IF ~(P = n \/ P = 1)
            THEN [status |-> "error", kind |-> "shape"]
       ELSE [status |-> "ok",
             y |-> ScatterFn([k \in DOMAIN mask |-> mask[(k + 1) % n]],
                             probs, P, C, 0, n - 1) @@ r.y]

\* y[:, mask] = probs, one row: every index of the mask must lie in the row
\* and probs must have one column per index (or broadcast from one column).
IndexAssign(r, mask, probs) ==
    LET C == Size(r.y)
        n == Size(mask)
        P == Size(probs)
    IN IF r.status # "ok" THEN r
       ELSE IF \E k \in DOMAIN mask : mask[k] < -C \/ mask[k] >= C
            THEN [status |-> "error", kind |-> "index"]
       ELSE IF ~(P = n \/ P = 1)
            THEN [status |-> "error", kind |-> "shape"]
       ELSE [status |-> "ok", y |-> ScatterFn(mask, probs, P, C, 0, n - 1) @@ r.y]

\* The row of y after the three assignments (before
\* the division), or the error raised on the way.
Assemble(self, row) ==
    LET L == Size(row)
        logits == SliceLogits(self, row)
    IN IF \E b \in Bands :
              ~ScaleShapesOK(TempOf(self, b), BiasOf(self, b), logits[b])
       THEN [status |-> "error", kind |-> "shape"]
       ELSE IF OutCols(L) < 0
       THEN [status |-> "error", kind |-> "shape"]
       ELSE LET probs == BandProbsAll(self, logits)
                y0 == [status |-> "ok", y |-> zeros(OutCols(L))]
                y1 == IndexAssign(y0, self.manyshotClassMask, probs["manyshot"])
                y2 == IndexAssign(y1, self.mediumshotClassMask, probs["mediumshot"])
            IN IndexAssign(y2, self.fewshotClassMask, probs["fewshot"])

\* The row left as it was assembled.
Renormalize_skip(y) == y

\* y / y.sum(dim=1).unsqueeze(1), one row; 0 / 0 is nan.
Renormalize(y) ==
    LET R == SumQ(y, 0, Size(y) - 1)
    IN [j \in DOMAIN y |-> IF R[1] = 0 THEN <<0, 0>> ELSE DivQ(y[j], R)]

\* forward on one row of the batch.
ForwardRow(self, row) ==
    LET a == Assemble(self, row)
    IN IF a.status # "ok" THEN a
       ELSE LET p == Renormalize(a.y)
            IN [status |-> "ok", y |-> [j \in DOMAIN p |-> Log(p[j])]]

\* forward(x): the batch of log-probabilities, or the error.  The shapes
\* are those of the whole batch, so either every row fails or none does.
forward(self, batch) ==
    LET rows == [r \in DOMAIN batch |-> ForwardRow(self, batch[r])]
    IN IF rows[0].status # "ok" THEN rows[0]
       ELSE [status |-> "ok", y |-> [r \in DOMAIN batch |-> rows[r].y]]

----------------------------------------------------------------------------
(* DotProduct_Classifier *)

\* DotProduct_Classifier(num_classes, feat_dim, use_logits): the argument
\* use_logits is "True", "False" or "omitted" (its default is False).
\* nn.Linear(feat_dim, num_classes) holds a num_classes x feat_dim weight
\* and a bias per class, whose initial values are the caller's to draw.
DotProduct_Classifier_init(num_classes, feat_dim, use_logits, weight, bias) ==
    [num_classes |-> num_classes,
     feat_dim |-> feat_dim,
     fc |-> [weight |-> weight, bias |-> bias],
     use_logits |-> IF use_logits = "omitted" THEN FALSE ELSE use_logits = "True"]

\* An entry of a score tensor: the number s itself, as Log(q) is the
\* number log q.
Raw(s) == [raw |-> s]

\* self.fc(x), one row: x W^T + b.
Linear(fc, row) ==
    [c \in DOMAIN fc.weight |->
        Raw(SumInt([k \in DOMAIN row |-> fc.weight[c][k] * row[k]], 0, Size(row) - 1)
            + fc.bias[c])]

\* F.log_softmax(s, dim=1), one row.
log_softmax(s) ==
    LET p == softmax([c \in DOMAIN s |-> s[c].raw])
    IN [c \in DOMAIN s |-> Log(p[c])]

\* The flag read the wrong way round.
DotProduct_forward_inverted(self, batch) ==
    LET s == [r \in DOMAIN batch |-> Linear(self.fc, batch[r])]
    IN IF self.use_logits
       THEN [r \in DOMAIN batch |-> log_softmax(s[r])]
       ELSE s

\* forward(x): the linear scores, through log_softmax unless use_logits.
DotProduct_forward(self, batch) ==
    LET s == [r \in DOMAIN batch |-> Linear(self.fc, batch[r])]
    IN IF ~self.use_logits
       THEN [r \in DOMAIN batch |-> log_softmax(s[r])]
       ELSE s

----------------------------------------------------------------------------
(* The callers of CalibrateExperts: construction, forward calls and the
   optimizer between them *)

\* Dataset identifiers a caller may pass.  'places' is the identifier of
\* the second configuration; 'cifar' names no configuration.
Datasets == {"imagenet", "places", "cifar"}
SupportedDatasets == {"imagenet", "places"}

\* x.shape[1] the instance is built for, and its number of real classes.
TotalWidth(self) ==
    (self.manyshotRange[2] - self.manyshotRange[1])
    + (self.mediumshotRange[2] - self.mediumshotRange[1])
    + (self.fewshotRange[2] - self.fewshotRange[1])

\* Class masks a caller may pass for ranges r.  All have one index per real
\* column of their band except "short"; "contig" and "stride" partition the
\* output indices, "overlap" repeats indices across bands, "oob" holds an
\* index past the output.  No mask repeats an index within itself.
MaskKinds == {"contig", "stride", "overlap", "oob", "short"}

ClassMasks(r, kind) ==
    LET n1 == r.manyshot[2] - r.manyshot[1] - 1
        n2 == r.mediumshot[2] - r.mediumshot[1] - 1
        n3 == r.fewshot[2] - r.fewshot[1] - 1
        C == n1 + n2 + n3
        at(j) == IF kind = "stride" THEN (j * 7) % C ELSE j
    IN [manyshot |-> [k \in 0..(n1 - 1) |-> at(k)],
        mediumshot |-> [k \in 0..(n2 - 1) |-> at(n1 + k)],
        fewshot |->
            IF kind = "overlap" THEN [k \in 0..(n3 - 1) |-> k]
            ELSE IF kind = "oob"
            THEN [k \in 0..(n3 - 1) |-> IF k = n3 - 1 THEN C ELSE n1 + n2 + k]
            ELSE IF kind = "short" THEN [k \in 0..(n3 - 2) |-> n1 + n2 + k]
            ELSE [k \in 0..(n3 - 1) |-> at(n1 + n2 + k)]]

\* Row lengths a caller may pass: the configured one, one more, one less,
\* and one column past the start of the fewshot range.
RowLengths(self) ==
    {TotalWidth(self), TotalWidth(self) + 1, TotalWidth(self) - 1,
     self.fewshotRange[1] + 1}

\* Batches a caller may pass: B rows of length L, all zero, or alternating
\* 1 and 0 with each row starting where the row before it did not.
Patterns == {"zeros", "alt"}

Batch(B, L, pattern) ==
    [r \in 0..(B - 1) |->
        [i \in 0..(L - 1) |-> IF pattern = "alt" THEN (i + r + 1) % 2 ELSE 0]]

VecNames ==
    {"manyshotTemp", "mediumshotTemp", "fewshotTemp",
     "manyshotBias", "mediumshotBias", "fewshotBias"}

BandOfVec(vec) ==
    IF vec \in {"manyshotTemp", "manyshotBias"} THEN "manyshot"
    ELSE IF vec \in {"mediumshotTemp", "mediumshotBias"} THEN "mediumshot"
    ELSE "fewshot"

\* What the optimizer may leave in the parameters: all ones ("reset"), every
\* bias at one value ("bias"), or all ones but one entry of one vector, its
\* first or its last (the reject column's).
NoUpdate == [kind |-> "reset", vec |-> "none", last |-> FALSE, val |-> 1]

Updates ==
    {NoUpdate,
     [kind |-> "bias", vec |-> "none", last |-> FALSE, val |-> 0],
     [kind |-> "entry", vec |-> "manyshotTemp", last |-> FALSE, val |-> 2],
     [kind |-> "entry", vec |-> "mediumshotTemp", last |-> FALSE, val |-> 0],
     [kind |-> "entry", vec |-> "fewshotTemp", last |-> TRUE, val |-> 0],
     [kind |-> "entry", vec |-> "manyshotBias", last |-> TRUE, val |-> 0],
     [kind |-> "entry", vec |-> "mediumshotBias", last |-> FALSE, val |-> 2],
     [kind |-> "entry", vec |-> "fewshotBias", last |-> FALSE, val |-> 2]}

\* The instance with its six parameter vectors overwritten in place: the
\* lengths stay, the values are those of update u.
ApplyUpdate(self, u) ==
    LET base == [self EXCEPT
                    !.manyshotTemp = ones(Size(self.manyshotTemp)),
                    !.mediumshotTemp = ones(Size(self.mediumshotTemp)),
                    !.fewshotTemp = ones(Size(self.fewshotTemp)),
                    !.manyshotBias = ones(Size(self.manyshotBias)),
                    !.mediumshotBias = ones(Size(self.mediumshotBias)),
                    !.fewshotBias = ones(Size(self.fewshotBias))]
    IN IF u.kind = "reset" THEN base
       ELSE IF u.kind = "bias"
       THEN [base EXCEPT
                !.manyshotBias = [i \in DOMAIN @ |-> u.val],
                !.mediumshotBias = [i \in DOMAIN @ |-> u.val],
                !.fewshotBias = [i \in DOMAIN @ |-> u.val]]
       ELSE [base EXCEPT
                ![u.vec] = [@ EXCEPT ![IF u.last THEN Size(@) - 1 ELSE 0] = u.val]]

\* The six learned parameter vectors of an instance.
Params(self) == [v \in VecNames |-> self[v]]

\* The classifier's variables, untouched by the calibration module.
ClfIdle ==
    /\ clf = <<>>
    /\ cpc = "none"
    /\ cx = <<>>
    /\ cresult = <<>>

\* The constructor calls made: every mask kind on the two configurations,
\* and a third identifier with masks for the 365 classes of 'places'.
Constructions ==
    (SupportedDatasets \X MaskKinds) \cup {<<"cifar", "contig">>}

\* After construction.
Init ==
    /\ \E c \in Constructions :
          LET m == ClassMasks(Ranges(IF c[1] = "cifar" THEN "places" ELSE c[1]), c[2])
          IN calib = CalibrateExperts_init(c[1], m.manyshot, m.mediumshot, m.fewshot)
    /\ setting = NoUpdate
    /\ pc = "idle"
    /\ x = <<>>
    /\ result = <<>>
    /\ ClfIdle

\* forward(x) reads self and stores nothing in it, but scales the manyshot
\* temperatures in place.
Forward_inplace ==
    /\ pc = "idle"
    /\ \E B \in 1..MaxBatch, L \in RowLengths(calib), pattern \in Patterns :
          /\ x' = Batch(B, L, pattern)
          /\ result' = forward(calib, Batch(B, L, pattern))
    /\ pc' = "returned"
    /\ calib' = [calib EXCEPT !.manyshotTemp = [i \in DOMAIN @ |-> 2 * @[i]]]
    /\ UNCHANGED <<setting, clf, cpc, cx, cresult>>

\* A call y = model(x): forward reads self and assigns none of its fields.
Forward ==
    /\ pc = "idle"
    /\ \E B \in 1..MaxBatch, L \in RowLengths(calib), pattern \in Patterns :
          /\ x' = Batch(B, L, pattern)
          /\ result' = forward(calib, Batch(B, L, pattern))
    /\ pc' = "returned"
    /\ UNCHANGED <<calib, setting, clf, cpc, cx, cresult>>

\* The caller has consumed the output; the module keeps none of it.
Return ==
    /\ pc = "returned"
    /\ pc' = "idle"
    /\ x' = <<>>
    /\ result' = <<>>
    /\ UNCHANGED <<calib, setting, clf, cpc, cx, cresult>>

\* The external optimizer, between forward calls, writes new values into the
\* parameter vectors.
OptimizerStep ==
    /\ pc = "idle"
    /\ \E u \in Updates :
          /\ u # setting
          /\ calib' = ApplyUpdate(calib, u)
          /\ setting' = u
    /\ UNCHANGED <<pc, x, result, clf, cpc, cx, cresult>>

Next == Forward \/ Return \/ OptimizerStep

Spec == Init /\ [][Next]_vars

----------------------------------------------------------------------------
(* The scenario instance: band widths (4, 4, 4), masks [0,1,2], [3,4,5],
   [6,7,8] *)

ExampleRanges ==
    [manyshot |-> <<0, 4>>, mediumshot |-> <<4, 8>>, fewshot |-> <<8, 12>>]

InitExample ==
    /\ LET m == ClassMasks(ExampleRanges, "contig")
       IN calib = WithRanges("example", ExampleRanges,
                             m.manyshot, m.mediumshot, m.fewshot)
    /\ setting = NoUpdate
    /\ pc = "idle"
    /\ x = <<>>
    /\ result = <<>>
    /\ ClfIdle

SpecExample == InitExample /\ [][Next]_vars

----------------------------------------------------------------------------
(* The callers of DotProduct_Classifier *)

UseLogitsArgs == {"omitted", "True", "False"}

\* Initial weights and biases of the linear layer, over small naturals.
WeightKinds == {"eye", "ramp", "ones"}

Weight(kind, num_classes, feat_dim) ==
    [c \in 0..(num_classes - 1) |->
        [k \in 0..(feat_dim - 1) |->
            IF kind = "eye" THEN (IF c = k THEN 1 ELSE 0)
            ELSE IF kind = "ramp" THEN (c + k) % 3
            ELSE 1]]

LinearBias(alt, num_classes) ==
    [c \in 0..(num_classes - 1) |-> IF alt THEN c % 2 ELSE 0]

\* Feature batches: B rows of feat_dim columns over {0, 1}; row r is the
\* first row with r added to every column, modulo 2.
Features(B, f) ==
    [r \in 0..(B - 1) |-> [k \in DOMAIN f |-> (f[k] + r) % 2]]

InitClassifier ==
    /\ \E nc \in 1..MaxClasses, fd \in 1..MaxFeat, ul \in UseLogitsArgs,
          wk \in WeightKinds, alt \in BOOLEAN :
          clf = DotProduct_Classifier_init(nc, fd, ul, Weight(wk, nc, fd),
                                           LinearBias(alt, nc))
    /\ cpc = "idle"
    /\ cx = <<>>
    /\ cresult = <<>>
    /\ calib = <<>>
    /\ setting = NoUpdate
    /\ pc = "none"
    /\ x = <<>>
    /\ result = <<>>

\* A call scores = classifier(features).
ClassifierForward ==
    /\ cpc = "idle"
    /\ \E B \in 1..MaxBatch, f \in [0..(clf.feat_dim - 1) -> {0, 1}] :
          /\ cx' = Features(B, f)
          /\ cresult' = DotProduct_forward(clf, Features(B, f))
    /\ cpc' = "returned"
    /\ UNCHANGED <<clf, calib, setting, pc, x, result>>

ClassifierReturn ==
    /\ cpc = "returned"
    /\ cpc' = "idle"
    /\ cx' = <<>>
    /\ cresult' = <<>>
    /\ UNCHANGED <<clf, calib, setting, pc, x, result>>

NextClassifier == ClassifierForward \/ ClassifierReturn

SpecClassifier == InitClassifier /\ [][NextClassifier]_vars

----------------------------------------------------------------------------
(* Properties of CalibrateExperts *)

\* p and q are the same rational.
EqQ(p, q) == ReduceQ(p) = ReduceQ(q)

\* The output indices a mask writes (a negative index counts from the end).
Targets(mask, C) ==
    {IF mask[k] < 0 THEN mask[k] + C ELSE mask[k] : k \in DOMAIN mask}

\* The three masks partition the output indices 0..C-1, each with one
\* index per real column of its band.
ValidMasks(self) ==
    LET C == TotalWidth(self) - 3
        T == [b \in Bands |-> Targets(MaskOf(self, b), C)]
    IN /\ \A b \in Bands :
            /\ Size(MaskOf(self, b)) = RangeOf(self, b)[2] - RangeOf(self, b)[1] - 1
            /\ Cardinality(T[b]) = Size(MaskOf(self, b))
       /\ T["manyshot"] \cap T["mediumshot"] = {}
       /\ T["manyshot"] \cap T["fewshot"] = {}
       /\ T["mediumshot"] \cap T["fewshot"] = {}
       /\ T["manyshot"] \cup T["mediumshot"] \cup T["fewshot"] = 0..(C - 1)

\* Every row of the batch has the length the instance is built for.
ValidRows(self, batch) ==
    \A r \in DOMAIN batch : Size(batch[r]) = TotalWidth(self)

\* A forward call on a valid batch has returned.
ReturnedValid ==
    pc = "returned" /\ ValidRows(calib, x) /\ ValidMasks(calib)

\* The returned row r exponentiated: the row before the final log.
ExpRow(r) == [j \in DOMAIN result.y[r] |-> result.y[r][j].log]

\* C1: on a valid batch forward returns, and every returned row,
\* exponentiated, sums to exactly 1, each entry being the assembled
\* (scattered) probability over the sum of the assembled row.
C1_RowsSumToOne ==
    ReturnedValid =>
        /\ result.status = "ok"
        /\ \A r \in DOMAIN x :
              LET p == ExpRow(r)
                  a == Assemble(calib, x[r]).y
                  R == SumQ(a, 0, Size(a) - 1)
              IN /\ ReduceQ(SumQ(p, 0, Size(p) - 1)) = <<1, 1>>
                 /\ DOMAIN p = DOMAIN a
                 /\ \A j \in DOMAIN p : EqQ(p[j], DivQ(a[j], R))

\* A valid batch whose rows differ has gone through forward under
\* parameters that are not all ones.
C1_Witness ==
    /\ ReturnedValid
    /\ result.status = "ok"
    /\ Size(x) = 2
    /\ x[0] # x[1]
    /\ setting.kind = "entry"
    /\ calib.manyshotClassMask[1] # 1

\* C2: on a valid batch the output has one row per input row and
\* TotalWidth - 3 columns (the real classes), whatever the batch size.
C2_OutputShape ==
    ReturnedValid =>
        /\ result.status = "ok"
        /\ Size(result.y) = Size(x)
        /\ \A r \in DOMAIN result.y : Size(result.y[r]) = TotalWidth(calib) - 3

C2_Witness ==
    /\ ReturnedValid
    /\ result.status = "ok"
    /\ Size(x) = MaxBatch
    /\ calib.dataset = "imagenet"
    /\ Size(result.y[0]) = 1000

\* C3: the three ranges of a constructed instance are non-empty, start at
\* 0, each starts where the one before ends, and the sum of their widths
\* is the end of the fewshot range.
C3_RangesContiguous ==
    /\ calib.manyshotRange[1] = 0
    /\ calib.manyshotRange[1] < calib.manyshotRange[2]
    /\ calib.mediumshotRange[1] = calib.manyshotRange[2]
    /\ calib.mediumshotRange[1] < calib.mediumshotRange[2]
    /\ calib.fewshotRange[1] = calib.mediumshotRange[2]
    /\ calib.fewshotRange[1] < calib.fewshotRange[2]
    /\ TotalWidth(calib) = calib.fewshotRange[2]
    /\ \A b \in Bands : Size(TempOf(calib, b)) = RangeOf(calib, b)[2] - RangeOf(calib, b)[1]

C3_Witness ==
    /\ calib.dataset = "places"
    /\ calib.mediumshotRange = <<133, 296>>
    /\ TotalWidth(calib) = 368

\* The scatter of row r wrote every output index exactly once, each with
\* the column of its band at the same position in the band's mask.
ScatteredOnce(self, row) ==
    LET a == Assemble(self, row).y
        C == Size(a)
        probs == BandProbsAll(self, SliceLogits(self, row))
        writes == Size(self.manyshotClassMask) + Size(self.mediumshotClassMask)
                  + Size(self.fewshotClassMask)
        written == Targets(self.manyshotClassMask, C)
                   \cup Targets(self.mediumshotClassMask, C)
                   \cup Targets(self.fewshotClassMask, C)
    IN /\ writes = Cardinality(written)
       /\ written = DOMAIN a
       /\ \A j \in DOMAIN a : a[j][1] > 0
       /\ \A b \in Bands :
             LET mask == MaskOf(self, b)
                 column == probs[b]
             IN \A k \in DOMAIN mask : a[mask[k]] = column[k]

\* C4 as stated: whatever masks the instance was given, a forward call that
\* succeeds on rows of the configured length has written every output
\* index exactly once.
C4_AnyMasksScatteredOnce ==
    (pc = "returned" /\ ValidRows(calib, x) /\ result.status = "ok") =>
        \A r \in DOMAIN x : ScatteredOnce(calib, x[r])

\* C4 amended: when the masks partition the output indices, every output
\* index is written exactly once, none stays zero, and index mask[k] holds
\* column k of its band.
C4_PartitionScatteredOnce ==
    ReturnedValid =>
        /\ result.status = "ok"
        /\ \A r \in DOMAIN x : ScatteredOnce(calib, x[r])

C4_Witness ==
    /\ ReturnedValid
    /\ result.status = "ok"
    /\ calib.manyshotClassMask[1] = 7
    /\ x[0][0] = 1

\* C5 as stated: no constructed instance carries a dataset identifier other
\* than the two supported ones.
C5_UnsupportedDatasetRejected ==
    calib.dataset \in SupportedDatasets

\* C6 as stated: a forward call on rows whose length is not the configured
\* one ends in an error.
C6_LengthMismatchFails ==
    (pc = "returned" /\ ~ValidRows(calib, x)) => result.status = "error"

\* C8: a forward call leaves the six parameter vectors as they were; their
\* values change only in an optimizer step; and their lengths are always
\* the widths of their bands.
C8_ForwardKeepsParams ==
    /\ [](\A b \in Bands :
            /\ Size(TempOf(calib, b)) = RangeOf(calib, b)[2] - RangeOf(calib, b)[1]
            /\ Size(BiasOf(calib, b)) = RangeOf(calib, b)[2] - RangeOf(calib, b)[1])
    /\ [][/\ pc' # pc => Params(calib') = Params(calib)
          /\ Params(calib') # Params(calib) => (pc = "idle" /\ pc' = "idle" /\ setting' # setting)
         ]_vars

\* Forward has run on parameters the optimizer had changed.
C8_Witness ==
    /\ pc = "returned"
    /\ result.status = "ok"
    /\ setting.kind = "entry"
    /\ calib.fewshotTemp[Size(calib.fewshotTemp) - 1] = 0

\* The assembled rows of the two runs on row: under the parameters as they
\* are, and under all ones.
AssembledNow(row) == Assemble(calib, row).y
AssembledOnes(row) == Assemble(ApplyUpdate(calib, NoUpdate), row).y

\* C9: with the parameters all ones but for one entry of one band, the
\* assembled row agrees with that of the all-ones run at every index outside
\* the perturbed band's mask, so at every index of the other bands' masks
\* when the masks partition the output.
C9_Locality ==
    (pc = "returned" /\ result.status = "ok" /\ setting.kind = "entry") =>
        \A r \in DOMAIN x :
            LET a1 == AssembledOnes(x[r])
                a2 == AssembledNow(x[r])
                own == Targets(MaskOf(calib, BandOfVec(setting.vec)), Size(a2))
            IN /\ DOMAIN a1 = DOMAIN a2
               /\ \A j \in DOMAIN a2 \ own : a1[j] = a2[j]
               /\ ValidMasks(calib) =>
                     \A b \in Bands \ {BandOfVec(setting.vec)} :
                         LET mask == MaskOf(calib, b)
                         IN \A k \in DOMAIN mask : a1[mask[k]] = a2[mask[k]]

\* The perturbed entry did change the assembled row inside its own band.
C9_Witness ==
    /\ ReturnedValid
    /\ result.status = "ok"
    /\ setting.kind = "entry"
    /\ setting.vec = "mediumshotBias"
    /\ \E j \in Targets(calib.mediumshotClassMask, Size(result.y[0])) :
          AssembledOnes(x[0])[j] # AssembledNow(x[0])[j]

----------------------------------------------------------------------------
(* The scenario of band widths (4, 4, 4) *)

\* The instance and the call of the scenario: temperatures all ones, a
\* constant bias, masks [0,1,2], [3,4,5], [6,7,8], and a batch whose first
\* row is twelve zeros.
ScenarioCall ==
    /\ pc = "returned"
    /\ calib.manyshotRange = <<0, 4>>
    /\ calib.mediumshotRange = <<4, 8>>
    /\ calib.fewshotRange = <<8, 12>>
    /\ calib.manyshotClassMask = (0 :> 0 @@ 1 :> 1 @@ 2 :> 2)
    /\ calib.mediumshotClassMask = (0 :> 3 @@ 1 :> 4 @@ 2 :> 5)
    /\ calib.fewshotClassMask = (0 :> 6 @@ 1 :> 7 @@ 2 :> 8)
    /\ \A b \in Bands :
          /\ \A i \in DOMAIN TempOf(calib, b) : TempOf(calib, b)[i] = 1
          /\ \A i \in DOMAIN BiasOf(calib, b) : BiasOf(calib, b)[i] = calib.manyshotBias[0]
    /\ x[0] = [i \in 0..11 |-> 0]

\* C7 as stated: the assembled row already sums to 1 and every one of the 9
\* final probabilities is 1/3.
C7_ScenarioThirds ==
    ScenarioCall =>
        /\ result.status = "ok"
        /\ ReduceQ(SumQ(AssembledNow(x[0]), 0, 8)) = <<1, 1>>
        /\ \A j \in 0..8 : EqQ(result.y[0][j].log, <<1, 3>>)

\* C7 amended: every assembled entry is 1/4, the assembled row sums to 9/4,
\* and every one of the 9 final probabilities is 1/9 (each entry log(1/9)).
C7_ScenarioNinths ==
    ScenarioCall =>
        /\ result.status = "ok"
        /\ DOMAIN result.y[0] = 0..8
        /\ \A j \in 0..8 : EqQ(AssembledNow(x[0])[j], <<1, 4>>)
        /\ ReduceQ(SumQ(AssembledNow(x[0]), 0, 8)) = <<9, 4>>
        /\ \A j \in 0..8 : EqQ(result.y[0][j].log, <<1, 9>>)

C7_Witness ==
    /\ ScenarioCall
    /\ result.status = "ok"
    /\ calib.manyshotBias[0] = 1

----------------------------------------------------------------------------
(* Properties of DotProduct_Classifier *)

\* The linear score of class c on row r of the batch handed in.
Score(r, c) ==
    SumInt([k \in DOMAIN cx[r] |-> clf.fc.weight[c][k] * cx[r][k]],
           0, clf.feat_dim - 1) + clf.fc.bias[c]

\* C10: the output has one row per input row and one column per class; with
\* use_logits the entries are the linear scores; without it they are the
\* logs of probabilities that sum to 1 over the classes and stand in the
\* ratios exp(score) : exp(score'), which is log_softmax of the scores.
C10_LogitsOrLogSoftmax ==
    cpc = "returned" =>
        /\ DOMAIN cresult = DOMAIN cx
        /\ \A r \in DOMAIN cx :
              /\ DOMAIN cresult[r] = 0..(clf.num_classes - 1)
              /\ IF clf.use_logits
                 THEN \A c \in DOMAIN cresult[r] : cresult[r][c] = Raw(Score(r, c))
                 ELSE LET q == [c \in DOMAIN cresult[r] |-> cresult[r][c].log]
                      IN /\ \A c \in DOMAIN cresult[r] : DOMAIN cresult[r][c] = {"log"}
                         /\ ReduceQ(SumQ(q, 0, clf.num_classes - 1)) = <<1, 1>>
                         /\ \A c, d \in DOMAIN q :
                               q[c][1] * q[d][2] * Exp(Score(r, d))
                               = q[d][1] * q[c][2] * Exp(Score(r, c))

\* The default branch on a classifier of several classes with unequal scores.
C10_Witness ==
    /\ cpc = "returned"
    /\ ~clf.use_logits
    /\ clf.num_classes = MaxClasses
    /\ Score(0, 0) # Score(0, 1)

====
